---- MODULE Spec2Model ----
(***************************************************************************)
(* Model of the premarket watchlist generator                              *)
(* (src/src/python/shared_layer/services.py, models.py, utils.py,          *)
(* constants.py, scrapers/zerodha_scraper.py).                             *)
(*                                                                         *)
(* Numbers.  confidence and every bias score are floats in the source.     *)
(* The model counts them in quarters (1.0 is 4, 0.5 is 2, a bias score of  *)
(* 2.5 is 10) and draws only confidences that are multiples of 0.25, for   *)
(* which the source's float products and sums are exact.  An average       *)
(* (total / news_count) is kept as the fraction [num, den] and compared by *)
(* cross-multiplication, which agrees with the comparison of the rounded   *)
(* float quotients for the small numerators and denominators drawn here.   *)
(***************************************************************************)
EXTENDS Integers, Sequences, FiniteSets, TLC

VARIABLES
    analyses,            \* the list analyze_all_news fills and generate_watchlist is handed
    max_watchlist_size,  \* self.max_watchlist_size
    today,               \* what get_current_date_ist() returns now
    watchlist,           \* the list generate_watchlist returned last
    runs,                \* one record per finished generate_watchlist call
    pc,                  \* where the thread of generate_complete_watchlist is
    max_workers,         \* self.max_workers
    news_items,          \* the NewsItem objects fetch_all_news returned
    symbol_futures,      \* future_to_item of extract_symbols_parallel
    analysis_futures,    \* future_to_item of analyze_all_news
    items_with_symbols,  \* the list extract_symbols_parallel fills
    stats,               \* the stats dict of analyze_all_news
    result,              \* what generate_complete_watchlist returned, if it has
    calls,               \* per news item, the adapter calls made for it and how they ended
    fetch_stats,         \* the stats dict of fetch_all_news
    feed,                \* the entries of the RSS feed, as feedparser returns them
    unique_news,         \* what scraper.fetch_news returned
    kwargs               \* the keyword arguments of a constructor called on its own

aggVars == <<analyses, max_watchlist_size, today, watchlist, runs>>
fetchVars == <<fetch_stats, feed, unique_news>>
pipeVars == <<pc, max_workers, news_items, symbol_futures, analysis_futures,
              items_with_symbols, stats, result, calls, fetch_stats, feed,
              unique_news, kwargs>>
vars == <<analyses, max_watchlist_size, today, watchlist, runs, pc, max_workers,
          news_items, symbol_futures, analysis_futures, items_with_symbols,
          stats, result, calls, fetch_stats, feed, unique_news, kwargs>>

---------------------------------------------------------------------------
(* Bounds of the model *)

MaxAnalyses == 2
MaxSize == 2
MaxRerunAnalyses == 2
MaxNews == 3
MaxWorkers == 2
MaxTitleLen == 2
MaxEntries == 2

---------------------------------------------------------------------------
(* constants.py and the enums of models.py *)

BIAS_SCORE_HIGH_THRESHOLD == 10      \* 2.5, in quarters
BIAS_SCORE_MEDIUM_THRESHOLD == 6     \* 1.5, in quarters
MIN_NEWS_COUNT_FOR_WATCHLIST == 1
MAX_WATCHLIST_SIZE == 10

Direction == {"BULLISH", "BEARISH", "NEUTRAL"}
EventType == {"Earnings", "Order", "Regulatory", "Macro", "Other"}
Priority == {"HIGH", "MEDIUM", "LOW"}

None == "None"

IMPACT_MIN == 1
IMPACT_MAX == 5
CONFIDENCE_MIN == 0
CONFIDENCE_MAX == 4                  \* 1.0, in quarters
BIAS_SCORE_MAX == 20                 \* 5.0, in quarters
SYMBOL_MAX_LENGTH == 20
RATIONALE_MAX_LENGTH == 200

---------------------------------------------------------------------------
(* Strings the model needs the length and the upper case of *)

SymbolLength(s) == IF s = "SYMBOLLONGERTHANTWENTYCHARS" THEN 27 ELSE Len(s)

\* A validator that leaves the symbol as it was given
C24_Mutant_upper(s) == s

\* str.upper()
upper(s) ==
    CASE s = "tcs" -> "TCS"
      [] s = "Infy" -> "INFY"
      [] s = "bullish" -> "BULLISH"
      [] s = "bearish" -> "BEARISH"
      [] s = "Neutral" -> "NEUTRAL"
      [] s = "sideways" -> "SIDEWAYS"
      [] OTHER -> s

---------------------------------------------------------------------------
(* Fractions: an average bias score, total / count, in quarters *)

Frac(n, d) == [num |-> n, den |-> d]
FracGeq(a, b) == a.num * b.den >= b.num * a.den
FracGt(a, b) == a.num * b.den > b.num * a.den
FracEq(a, b) == a.num * b.den = b.num * a.den

Min(a, b) == IF a <= b THEN a ELSE b
Max(a, b) == IF a >= b THEN a ELSE b

---------------------------------------------------------------------------
(* models.py: AnalysisResult *)

\* The pre-validator of bias_score: the product when the value is None,
\* else the value as it was given
calculate_bias_score(v, values) ==
    IF v = <<>> THEN <<values.impact_strength * values.confidence>> ELSE v

\* A constructor that puts no bounds on impact_strength
C23_Mutant_AnalysisResult(f) ==
    IF /\ "bias_score" \in DOMAIN f
       /\ SymbolLength(f.stock_symbol) <= SYMBOL_MAX_LENGTH
       /\ f.event_type \in EventType
       /\ f.direction \in Direction
       /\ f.confidence >= CONFIDENCE_MIN /\ f.confidence <= CONFIDENCE_MAX
       /\ f.rationale.length >= 1 /\ f.rationale.length <= RATIONALE_MAX_LENGTH
       /\ calculate_bias_score(f.bias_score, f) # <<>>
       /\ calculate_bias_score(f.bias_score, f)[1] >= 0
       /\ calculate_bias_score(f.bias_score, f)[1] <= BIAS_SCORE_MAX
    THEN <<[f EXCEPT !.stock_symbol = upper(@),
                     !.bias_score = calculate_bias_score(@, f)[1]]>>
    ELSE <<>>

\* The constructor: field constraints, then the validators.  Returns the
\* object in a sequence of length one, or the empty sequence when pydantic
\* raises a validation error.
\* f holds the keyword arguments: news_id, stock_symbol, event_type,
\* direction, impact_strength, confidence, rationale (a text: whose it is and
\* its length), bias_score, news_published_at.
\* bias_score is <<v>> for a value and <<>> for None; a record without the
\* field is a call that omits the argument, which pydantic refuses for a
\* required field (Field(...)) before any validator runs.
AnalysisResult(f) ==
    IF /\ "bias_score" \in DOMAIN f
       /\ SymbolLength(f.stock_symbol) <= SYMBOL_MAX_LENGTH
       /\ f.event_type \in EventType
       /\ f.direction \in Direction
       /\ f.impact_strength >= IMPACT_MIN /\ f.impact_strength <= IMPACT_MAX
       /\ f.confidence >= CONFIDENCE_MIN /\ f.confidence <= CONFIDENCE_MAX
       /\ f.rationale.length >= 1 /\ f.rationale.length <= RATIONALE_MAX_LENGTH
       /\ calculate_bias_score(f.bias_score, f) # <<>>
       /\ calculate_bias_score(f.bias_score, f)[1] >= 0
       /\ calculate_bias_score(f.bias_score, f)[1] <= BIAS_SCORE_MAX
    THEN <<[f EXCEPT !.stock_symbol = upper(@),
                     !.bias_score = calculate_bias_score(@, f)[1]]>>
    ELSE <<>>

---------------------------------------------------------------------------
(* utils.py *)

determine_priority(bias_score) ==
    IF FracGeq(bias_score, Frac(BIAS_SCORE_HIGH_THRESHOLD, 1)) THEN "HIGH"
    ELSE IF FracGeq(bias_score, Frac(BIAS_SCORE_MEDIUM_THRESHOLD, 1)) THEN "MEDIUM"
    ELSE "LOW"

---------------------------------------------------------------------------
(* Python built-ins used by generate_watchlist *)

\* sorted(seq, key=Key, reverse=True) and list.sort(key=Key, reverse=True):
\* descending by key, and stable: elements with equal keys keep their order.
\* Element i goes to the place after every element with a greater key and
\* every earlier element with an equal key.
\* keys[i] is the key of seq[i].
SortedReverse(seq, keys) ==
    LET n == Len(seq)
        place(i) == 1 + Cardinality({j \in 1..n :
                          \/ FracGt(keys[j], keys[i])
                          \/ (j < i /\ FracEq(keys[j], keys[i]))})
    IN [p \in 1..n |-> seq[CHOOSE i \in 1..n : place(i) = p]]

\* seq[:m], for any integer m
SlicePrefix(seq, m) ==
    LET n == Len(seq)
        k == IF m >= 0 THEN Min(m, n) ELSE Max(n + m, 0)
    IN SubSeq(seq, 1, k)

\* max(directions, key=directions.get) over a dict kept in insertion order:
\* the first key whose count is the greatest.
MaxByCount(directions) ==
    LET i == CHOOSE i \in 1..Len(directions) :
                 /\ \A j \in 1..Len(directions) :
                        directions[j].count <= directions[i].count
                 /\ \A j \in 1..(i - 1) :
                        directions[j].count < directions[i].count
    IN directions[i].direction

---------------------------------------------------------------------------
(* services.py: generate_watchlist *)

\* directions[analysis.direction] += 1 on a defaultdict(int)
TallyDirection(directions, direction) ==
    IF \E i \in 1..Len(directions) : directions[i].direction = direction
    THEN [i \in 1..Len(directions) |->
            IF directions[i].direction = direction
            THEN [directions[i] EXCEPT !.count = @ + 1]
            ELSE directions[i]]
    ELSE Append(directions, [direction |-> direction, count |-> 1])

\* the default factory of stock_aggregates
NewAggregate(symbol) ==
    [symbol |-> symbol,
     analyses |-> <<>>,
     total_bias_score |-> 0,
     directions |-> <<>>,
     latest_news_datetime |-> <<>>]

\* A loop body that keeps the last score in place of the total
C27_Mutant_AddToAggregate(agg, analysis) ==
    [agg EXCEPT
        !.analyses = Append(@, analysis),
        !.total_bias_score = analysis.bias_score,
        !.directions = TallyDirection(@, analysis.direction),
        !.latest_news_datetime =
            IF @ = <<>> \/ analysis.news_published_at > @[1]
            THEN <<analysis.news_published_at>> ELSE @]

\* the body of the loop over analyses, on the aggregate of the symbol
AddToAggregate(agg, analysis) ==
    [agg EXCEPT
        !.analyses = Append(@, analysis),
        !.total_bias_score = @ + analysis.bias_score,
        !.directions = TallyDirection(@, analysis.direction),
        !.latest_news_datetime =
            IF @ = <<>> \/ analysis.news_published_at > @[1]
            THEN <<analysis.news_published_at>> ELSE @]

\* stock_aggregates after the first loop: one aggregate per symbol, in the
\* order the symbols were first seen (the dict's insertion order)
RECURSIVE Aggregate(_, _)
Aggregate(stock_aggregates, rest) ==
    IF rest = <<>> THEN stock_aggregates
    ELSE LET analysis == Head(rest)
             symbol == analysis.stock_symbol
             known == \E i \in 1..Len(stock_aggregates) :
                          stock_aggregates[i].symbol = symbol
             withKey == IF known THEN stock_aggregates
                        ELSE Append(stock_aggregates, NewAggregate(symbol))
         IN Aggregate([i \in 1..Len(withKey) |->
                          IF withKey[i].symbol = symbol
                          THEN AddToAggregate(withKey[i], analysis)
                          ELSE withKey[i]],
                      Tail(rest))

\* A sort key that tells no analysis from another
C26_Mutant_AnalysisBias(analysis) == Frac(0, 1)

AnalysisBias(analysis) == Frac(analysis.bias_score, 1)
ItemBias(item) == item.bias_score

\* The keys of the two sorts: key=lambda x: x.bias_score
AnalysisBiases(list) == [i \in 1..Len(list) |-> AnalysisBias(list[i])]
ItemBiases(list) == [i \in 1..Len(list) |-> ItemBias(list[i])]

\* models.py: WatchlistItem, its field constraints
WatchlistItemValid(item) ==
    /\ SymbolLength(item.stock_symbol) <= SYMBOL_MAX_LENGTH
    /\ item.direction \in Direction
    /\ item.priority \in Priority
    /\ FracGeq(item.bias_score, Frac(0, 1))
    /\ FracGeq(Frac(BIAS_SCORE_MAX, 1), item.bias_score)
    /\ item.reason.length >= 1 /\ item.reason.length <= RATIONALE_MAX_LENGTH
    /\ item.news_count >= 1
    /\ item.latest_news_datetime # <<>>

\* A second loop without its test of the dominant direction
C5_Mutant_SkipsDirection(dominant_direction) == FALSE

\* Whether the second loop skips the dominant direction
SkipsDirection(dominant_direction) == dominant_direction = "NEUTRAL"

\* A second loop without its test of the priority
C6_Mutant_SkipsPriority(priority) == FALSE

\* Whether the second loop skips the priority
SkipsPriority(priority) == priority = "LOW"

\* One pass of the second loop: the items the aggregate adds (none or one)
WatchlistItemsOf(agg, date) ==
    LET news_count == Len(agg.analyses)
        avg_bias_score == Frac(agg.total_bias_score, news_count)
        dominant_direction == MaxByCount(agg.directions)
        priority == determine_priority(avg_bias_score)
        sorted_analyses == SortedReverse(agg.analyses, AnalysisBiases(agg.analyses))
        item == [stock_symbol |-> upper(agg.symbol),
                 direction |-> dominant_direction,
                 priority |-> priority,
                 bias_score |-> avg_bias_score,
                 reason |-> sorted_analyses[1].rationale,
                 news_count |-> news_count,
                 sector |-> None,
                 latest_news_datetime |-> agg.latest_news_datetime,
                 date |-> date]
    IN IF news_count < MIN_NEWS_COUNT_FOR_WATCHLIST THEN <<>>
       ELSE IF agg.directions = <<>> THEN <<>>
       ELSE IF SkipsDirection(dominant_direction) THEN <<>>
       ELSE IF SkipsPriority(priority) THEN <<>>
       ELSE IF ~WatchlistItemValid(item) THEN <<>>
       ELSE <<item>>

RECURSIVE WatchlistItems(_, _)
WatchlistItems(stock_aggregates, date) ==
    IF stock_aggregates = <<>> THEN <<>>
    ELSE WatchlistItemsOf(Head(stock_aggregates), date)
         \o WatchlistItems(Tail(stock_aggregates), date)

\* A sort that is not stable: the list is reversed first
C7_Mutant_SortWatchlist(watchlist_items) ==
    LET reversed == [i \in 1..Len(watchlist_items) |->
                        watchlist_items[Len(watchlist_items) + 1 - i]]
    IN SortedReverse(reversed, ItemBiases(reversed))

\* watchlist_items.sort(key=lambda x: x.bias_score, reverse=True)
SortWatchlist(watchlist_items) ==
    SortedReverse(watchlist_items, ItemBiases(watchlist_items))

\* A cut one entry short
C8_Mutant_LimitWatchlist(watchlist_items, size) ==
    SlicePrefix(watchlist_items, size - 1)

\* watchlist_items[:self.max_watchlist_size]
LimitWatchlist(watchlist_items, size) == SlicePrefix(watchlist_items, size)

\* The items before the sort and the cut, in the aggregates' order
Qualifying(list, date) == WatchlistItems(Aggregate(<<>>, list), date)

generate_watchlist(list, size, date) ==
    LimitWatchlist(SortWatchlist(Qualifying(list, date)), size)

\* A generate_watchlist that sorts the list it was handed in place
C10_Mutant_ArgumentAfterGenerate(list) ==
    SortedReverse(list, AnalysisBiases(list))

\* What generate_watchlist leaves in the list it was handed: it appends to
\* its own aggregates and sorts copies (sorted()), never the argument.
ArgumentAfterGenerate(list) == list


---------------------------------------------------------------------------
(* The aggregator and ranker on their own: generate_watchlist applied to  *)
(* lists of analyses drawn from bounded sets                               *)

Symbols == {"TCS", "INFY"}

\* <<impact_strength, confidence>>: bias scores 1.0, 1.5 and 2.5
ScoreInputs == {<<1, 4>>, <<3, 2>>, <<5, 2>>}

Dates == <<"2024-01-12", "2024-01-13">>

AnalysisDraws == Symbols \X Direction \X ScoreInputs

\* The AnalysisResult _analyze_single_item builds for news item i from a
\* draw: bias_score is the product, the rationale and the publication time
\* are the item's own.
AnalysisOf(i, draw) ==
    AnalysisResult([news_id |-> i,
                    stock_symbol |-> draw[1],
                    event_type |-> "Other",
                    direction |-> draw[2],
                    impact_strength |-> draw[3][1],
                    confidence |-> draw[3][2],
                    rationale |-> [of |-> i, length |-> 40],
                    bias_score |-> <<draw[3][1] * draw[3][2]>>,
                    news_published_at |-> i])[1]

AnalysisLists(n) ==
    UNION {{[i \in 1..k |-> AnalysisOf(i, f[i])] : f \in [1..k -> AnalysisDraws]}
           : k \in 0..n}

\* The pipeline is not running
PipelineIdle ==
    /\ pc = "idle"
    /\ max_workers = 1
    /\ news_items = <<>>
    /\ symbol_futures = <<>>
    /\ analysis_futures = <<>>
    /\ items_with_symbols = <<>>
    /\ stats = [total |-> 0, with_symbols |-> 0, analyzed |-> 0, errors |-> 0]
    /\ result = <<>>
    /\ calls = <<>>
    /\ fetch_stats = [total_fetched |-> 0, errors |-> 0]
    /\ feed = <<>>
    /\ unique_news = <<>>
    /\ kwargs = <<>>

InitAgg ==
    /\ analyses \in AnalysisLists(MaxAnalyses)
    /\ max_watchlist_size \in 1..MaxSize
    /\ today = Dates[1]
    /\ watchlist = <<>>
    /\ runs = <<>>
    /\ PipelineIdle

InitRerun ==
    /\ analyses \in AnalysisLists(MaxRerunAnalyses)
    /\ max_watchlist_size \in 1..MaxSize
    /\ today = Dates[1]
    /\ watchlist = <<>>
    /\ runs = <<>>
    /\ PipelineIdle

\* A call of generate_watchlist on the list
GenerateWatchlist ==
    LET returned == generate_watchlist(analyses, max_watchlist_size, today)
    IN /\ watchlist' = returned
       /\ analyses' = ArgumentAfterGenerate(analyses)
       /\ runs' = Append(runs, [input |-> analyses,
                                argument_after |-> analyses',
                                size |-> max_watchlist_size,
                                date |-> today,
                                output |-> returned])
       /\ UNCHANGED <<max_watchlist_size, today>>

\* Another run of the analyzer over the same items collects the same
\* results in another completion order: two neighbours change places.
Reorder ==
    /\ Len(runs) = 1
    /\ analyses = runs[1].input
    /\ \E i \in 1..(Len(analyses) - 1) :
          analyses' = [analyses EXCEPT ![i] = analyses[i + 1],
                                       ![i + 1] = analyses[i]]
    /\ UNCHANGED <<max_watchlist_size, today, watchlist, runs>>
    /\ UNCHANGED pipeVars

\* The IST date changes between two runs
Midnight ==
    /\ today = Dates[1]
    /\ Len(runs) = 1
    /\ today' = Dates[2]
    /\ UNCHANGED <<analyses, max_watchlist_size, watchlist, runs>>
    /\ UNCHANGED pipeVars

NextAgg == runs = <<>> /\ GenerateWatchlist /\ UNCHANGED pipeVars

NextRerun ==
    \/ Len(runs) < 2 /\ GenerateWatchlist /\ UNCHANGED pipeVars
    \/ Reorder
    \/ Midnight

SpecAgg == InitAgg /\ [][NextAgg]_vars

SpecRerun == InitRerun /\ [][NextRerun]_vars

---------------------------------------------------------------------------
(* Texts.  A title is a sequence of characters.                            *)

Chars == {"a", " ", "#"}

\* \s of the regular expressions, and what str.strip() removes
IsSpace(c) == c = " "

\* [\w\s.,!?-], the characters sanitize_text keeps
IsKept(c) == c \in {"a", " ", ".", ",", "!", "?", "-"}

\* str.strip()
RECURSIVE lstrip(_)
lstrip(text) ==
    IF text # <<>> /\ IsSpace(Head(text)) THEN lstrip(Tail(text)) ELSE text

RECURSIVE rstrip(_)
rstrip(text) ==
    IF text # <<>> /\ IsSpace(text[Len(text)])
    THEN rstrip(SubSeq(text, 1, Len(text) - 1))
    ELSE text

strip(text) == rstrip(lstrip(text))

\* re.sub(r'\s+', ' ', text): every run of whitespace becomes one space
RECURSIVE CollapseSpaces(_)
CollapseSpaces(text) ==
    IF text = <<>> THEN <<>>
    ELSE IF IsSpace(Head(text))
         THEN <<" ">> \o CollapseSpaces(lstrip(text))
         ELSE <<Head(text)>> \o CollapseSpaces(Tail(text))

\* re.sub(r'[^\w\s.,!?-]', '', text)
RemoveSpecial(text) == SelectSeq(text, IsKept)

\* utils.sanitize_text
sanitize_text(text) == strip(RemoveSpecial(CollapseSpaces(text)))

---------------------------------------------------------------------------
(* scrapers: BaseScraper.__init__, ZerodhaScraper.parse_zerodha_feed and    *)
(* fetch_news.  An entry of the feed is [title, link]; link 0 is a missing  *)
(* link, any other link tells the entries apart.                            *)

\* self.max_items, from MAX_NEWS_ITEMS with its default
MAX_NEWS_ITEMS == 10

\* The news dictionary parse_zerodha_feed makes of an entry, none for an
\* entry it skips
NewsOfEntry(entry) ==
    LET title == strip(entry.title)
    IN IF title = <<>> THEN <<>>
       ELSE IF entry.link = 0 THEN <<>>
       ELSE <<[title |-> sanitize_text(title),
               stock_symbol |-> <<>>,
               url |-> entry.link]>>

RECURSIVE ParsedEntries(_)
ParsedEntries(entries) ==
    IF entries = <<>> THEN <<>>
    ELSE NewsOfEntry(Head(entries)) \o ParsedEntries(Tail(entries))

parse_zerodha_feed(entries) == ParsedEntries(SlicePrefix(entries, MAX_NEWS_ITEMS))

\* Whether the loop of fetch_news keeps the item, given the titles seen
KeepsItem(title, seen_titles) == title # <<>> /\ title \notin seen_titles

\* The loop of fetch_news over all_news
RECURSIVE UniqueNews(_, _)
UniqueNews(all_news, seen_titles) ==
    IF all_news = <<>> THEN <<>>
    ELSE LET item == Head(all_news)
         IN IF KeepsItem(item.title, seen_titles)
            THEN <<item>> \o UniqueNews(Tail(all_news), seen_titles \cup {item.title})
            ELSE UniqueNews(Tail(all_news), seen_titles)

fetch_news(entries) ==
    SlicePrefix(UniqueNews(parse_zerodha_feed(entries), {}), MAX_NEWS_ITEMS)

---------------------------------------------------------------------------
(* The model class on its own: the constructor of AnalysisResult on keyword *)
(* arguments drawn from the ranges of the fields                            *)

\* Every bias_score a caller may pass: a value of the field's range, or None
BiasArguments == {<<>>} \cup {<<b>> : b \in 0..BIAS_SCORE_MAX}

ResultKwargs ==
    LET given == [news_id : {1}, stock_symbol : {"INFY"}, event_type : {"Earnings"},
                  direction : {"BULLISH"},
                  impact_strength : (IMPACT_MIN - 1)..(IMPACT_MAX + 1),
                  confidence : CONFIDENCE_MIN..CONFIDENCE_MAX,
                  rationale : {[of |-> 1, length |-> 12]},
                  bias_score : BiasArguments,
                  news_published_at : {1}]
        omitted == [news_id : {1}, stock_symbol : {"INFY"}, event_type : {"Earnings"},
                    direction : {"BULLISH"},
                    impact_strength : (IMPACT_MIN - 1)..(IMPACT_MAX + 1),
                    confidence : CONFIDENCE_MIN..CONFIDENCE_MAX,
                    rationale : {[of |-> 1, length |-> 12]},
                    news_published_at : {1}]
    IN given \cup omitted

InitModels ==
    /\ analyses = <<>>
    /\ max_watchlist_size = 1
    /\ today = Dates[1]
    /\ watchlist = <<>>
    /\ runs = <<>>
    /\ pc = "idle"
    /\ max_workers = 1
    /\ news_items = <<>>
    /\ symbol_futures = <<>>
    /\ analysis_futures = <<>>
    /\ items_with_symbols = <<>>
    /\ stats = [total |-> 0, with_symbols |-> 0, analyzed |-> 0, errors |-> 0]
    /\ result = <<>>
    /\ calls = <<>>
    /\ fetch_stats = [total_fetched |-> 0, errors |-> 0]
    /\ feed = <<>>
    /\ unique_news = <<>>
    /\ kwargs \in ResultKwargs

\* The constructor called with kwargs; the object, if one is made, is kept in analyses
ConstructAnalysisResult ==
    /\ pc = "idle"
    /\ analyses' = analyses \o AnalysisResult(kwargs)
    /\ pc' = "constructed"
    /\ UNCHANGED <<max_workers, news_items, symbol_futures, analysis_futures,
                   items_with_symbols, stats, result, calls>>
    /\ UNCHANGED <<max_watchlist_size, today, watchlist, runs>>
    /\ UNCHANGED fetchVars
    /\ UNCHANGED kwargs

NextModels == ConstructAnalysisResult

SpecModels == InitModels /\ [][NextModels]_vars

---------------------------------------------------------------------------
(* The scraper on its own: fetch_news applied to feeds drawn from bounded   *)
(* sets                                                                     *)

Titles == UNION {[1..k -> Chars] : k \in 0..MaxTitleLen}

\* The feeds of n entries at most, entry i with link i
Feeds(n) ==
    UNION {{[i \in 1..k |-> [title |-> t[i], link |-> i]] : t \in [1..k -> Titles]}
           : k \in 0..n}

InitDedup ==
    /\ analyses = <<>>
    /\ max_watchlist_size = 1
    /\ today = Dates[1]
    /\ watchlist = <<>>
    /\ runs = <<>>
    /\ pc = "idle"
    /\ max_workers = 1
    /\ news_items = <<>>
    /\ symbol_futures = <<>>
    /\ analysis_futures = <<>>
    /\ items_with_symbols = <<>>
    /\ stats = [total |-> 0, with_symbols |-> 0, analyzed |-> 0, errors |-> 0]
    /\ result = <<>>
    /\ calls = <<>>
    /\ fetch_stats = [total_fetched |-> 0, errors |-> 0]
    /\ feed \in Feeds(MaxEntries)
    /\ unique_news = <<>>
    /\ kwargs = <<>>

\* A call of scraper.fetch_news on the feed
FetchNews ==
    /\ pc = "idle"
    /\ unique_news' = fetch_news(feed)
    /\ pc' = "fetched_news"
    /\ UNCHANGED <<max_workers, news_items, symbol_futures, analysis_futures,
                   items_with_symbols, stats, result, calls, fetch_stats, feed>>
    /\ UNCHANGED aggVars
    /\ UNCHANGED kwargs

NextDedup == FetchNews

SpecDedup == InitDedup /\ [][NextDedup]_vars

---------------------------------------------------------------------------
(* The adapters.  News item i of the feed is about one company, and the    *)
(* language model, when it answers, names that company and gives one       *)
(* analysis of the item; a call may also find no symbol, return a payload  *)
(* without the expected fields, or raise.                                  *)

FeedSymbol(i) ==
    CASE i % 3 = 1 -> "TCS"
      [] i % 3 = 2 -> "tcs"
      [] OTHER -> "INFY"

FeedPayload(i) ==
    CASE i % 3 = 1 -> [event_type |-> "Earnings", direction |-> "BULLISH",
                       impact_strength |-> 5, confidence |-> 4,
                       rationale |-> [of |-> i, length |-> 40]]
      [] i % 3 = 2 -> [event_type |-> "Merger", direction |-> "bearish",
                       impact_strength |-> 3, confidence |-> 2,
                       rationale |-> [of |-> i, length |-> 40]]
      [] OTHER -> [event_type |-> "Order", direction |-> "BEARISH",
                   impact_strength |-> 5, confidence |-> 2,
                   rationale |-> [of |-> i, length |-> 40]]

\* What llm_client.extract_stock_symbols may do for item i
ExtractOutcomes(i) ==
    {[kind |-> "returns", symbols |-> <<FeedSymbol(i)>>],
     [kind |-> "returns", symbols |-> <<>>],
     [kind |-> "raises"]}

\* What llm_client.analyze_news may do for item i
AnalyzeOutcomes(i) ==
    {[kind |-> "returns", payload |-> FeedPayload(i)],
     [kind |-> "returns", payload |-> [message |-> "Too many requests"]],
     [kind |-> "raises"]}

\* The feed of the pipeline's runs: n entries with titles of their own,
\* entry i with link i, and after them, when repeated, the first entry's
\* title again behind a space
PipelineFeed(n, repeated) ==
    [i \in 1..n |-> [title |-> [j \in 1..i |-> "a"], link |-> i]]
    \o (IF repeated THEN <<[title |-> <<" ", "a">>, link |-> n + 1]>> ELSE <<>>)

\* What scraper.fetch_news may do: raise, or read a feed (an empty one, or
\* one that repeats a title) and return its news
FetchOutcomes ==
    {[kind |-> "raises"]}
    \cup {[kind |-> "returns", entries |-> PipelineFeed(n, n > 0)] : n \in 0..MaxNews}

\* What self.scraper.fetch_news() hands to fetch_all_news
ScraperResult(outcome) ==
    IF outcome.kind = "raises" THEN outcome
    ELSE [kind |-> "returns", news_data_list |-> fetch_news(outcome.entries)]

---------------------------------------------------------------------------
(* models.py: NewsItem and LLMAnalysisResponse *)

\* The NewsItem fetch_all_news builds from entry i of the feed; the scraper
\* leaves stock_symbol None
NewsItem(i) == [id |-> i, stock_symbol |-> <<>>, published_at |-> i]

\* Python's truth value of an Optional[str]
Truthy(optional) == optional # <<>> /\ optional[1] # ""

\* A validator of event_type without its default
C19_Mutant_validate_event_type(v) == v

validate_event_type(v) == IF v \notin EventType THEN "Other" ELSE v

validate_direction(v) ==
    LET v_upper == upper(v)
    IN IF v_upper \notin Direction THEN "NEUTRAL" ELSE v_upper

\* LLMAnalysisResponse(**llm_response): the validated response in a sequence
\* of length one, or the empty sequence when pydantic raises
LLMAnalysisResponse(payload) ==
    IF /\ {"event_type", "direction", "impact_strength", "confidence",
           "rationale"} \subseteq DOMAIN payload
       /\ payload.impact_strength >= IMPACT_MIN
       /\ payload.impact_strength <= IMPACT_MAX
       /\ payload.confidence >= CONFIDENCE_MIN
       /\ payload.confidence <= CONFIDENCE_MAX
    THEN <<[event_type |-> validate_event_type(payload.event_type),
            direction |-> validate_direction(payload.direction),
            impact_strength |-> payload.impact_strength,
            confidence |-> payload.confidence,
            rationale |-> payload.rationale]>>
    ELSE <<>>

---------------------------------------------------------------------------
(* utils.py and services.py: the work of one task *)

extract_stock_symbols_with_llm(outcome) ==
    IF outcome.kind = "raises" THEN <<>> ELSE outcome.symbols

\* _extract_symbol_for_item: the news item as the task leaves it
extract_symbol_for_item(news_item, outcome) ==
    IF Truthy(news_item.stock_symbol) THEN news_item
    ELSE LET symbols == extract_stock_symbols_with_llm(outcome)
         IN IF symbols # <<>>
            THEN [news_item EXCEPT !.stock_symbol = <<symbols[1]>>]
            ELSE news_item

\* _analyze_single_item: the AnalysisResult in a sequence of length one, or
\* the empty sequence for None
analyze_single_item(news_item, outcome) ==
    IF outcome.kind = "raises" THEN <<>>
    ELSE LET validated == LLMAnalysisResponse(outcome.payload)
         IN IF validated = <<>> THEN <<>>
            ELSE AnalysisResult(
                   [news_id |-> news_item.id,
                    stock_symbol |-> news_item.stock_symbol[1],
                    event_type |-> validated[1].event_type,
                    direction |-> validated[1].direction,
                    impact_strength |-> validated[1].impact_strength,
                    confidence |-> validated[1].confidence,
                    rationale |-> validated[1].rationale,
                    bias_score |-> <<validated[1].impact_strength
                                       * validated[1].confidence>>,
                    news_published_at |-> news_item.published_at])

---------------------------------------------------------------------------
(* The analysis of one item on its own: _analyze_single_item for payloads   *)
(* of the language model drawn from bounded sets, in and out of range       *)

\* One step below and one above the range of impact_strength, and a quarter
\* below and above the range of confidence
Payloads ==
    [event_type : {"Earnings", "Merger"},
     direction : {"BULLISH", "bearish", "Neutral", "sideways"},
     impact_strength : (IMPACT_MIN - 1)..(IMPACT_MAX + 1),
     confidence : (CONFIDENCE_MIN - 1)..(CONFIDENCE_MAX + 1),
     rationale : {[of |-> 1, length |-> 12],
                  [of |-> 1, length |-> RATIONALE_MAX_LENGTH + 1]}]

\* The news item handed to _analyze_single_item, its symbol extracted
AnalyzedNewsItem == [id |-> 1, stock_symbol |-> <<"tcs">>, published_at |-> 1]

InitAnalyze ==
    /\ analyses = <<>>
    /\ max_watchlist_size = 1
    /\ today = Dates[1]
    /\ watchlist = <<>>
    /\ runs = <<>>
    /\ pc = "idle"
    /\ max_workers = 1
    /\ news_items = <<AnalyzedNewsItem>>
    /\ symbol_futures = <<>>
    /\ analysis_futures = <<>>
    /\ items_with_symbols = <<>>
    /\ stats = [total |-> 0, with_symbols |-> 0, analyzed |-> 0, errors |-> 0]
    /\ result = <<>>
    /\ calls = <<>>
    /\ fetch_stats = [total_fetched |-> 0, errors |-> 0]
    /\ feed = <<>>
    /\ unique_news = <<>>
    /\ kwargs \in Payloads

\* _analyze_single_item(news_item) when analyze_news returns kwargs; the
\* AnalysisResult, if one is returned, is kept in analyses
AnalyzeSingleItem ==
    /\ pc = "idle"
    /\ analyses' = analyses
          \o analyze_single_item(news_items[1],
                                 [kind |-> "returns", payload |-> kwargs])
    /\ pc' = "analyzed"
    /\ UNCHANGED <<max_workers, news_items, symbol_futures, analysis_futures,
                   items_with_symbols, stats, result, calls>>
    /\ UNCHANGED <<max_watchlist_size, today, watchlist, runs>>
    /\ UNCHANGED fetchVars
    /\ UNCHANGED kwargs

NextAnalyze == AnalyzeSingleItem

SpecAnalyze == InitAnalyze /\ [][NextAnalyze]_vars

---------------------------------------------------------------------------
(* concurrent.futures: ThreadPoolExecutor(max_workers) and as_completed *)

Running(futures) ==
    Cardinality({k \in 1..Len(futures) : futures[k].state = "running"})

\* A pool that starts a queued task whatever the number of running ones
C2_Mutant_MayStart(futures, k, workers) ==
    /\ futures[k].state = "queued"
    /\ \A j \in 1..(k - 1) : futures[j].state # "queued"

\* A loop that ends with the first future as_completed yields
C3_Mutant_AllCollected(futures) == \E k \in 1..Len(futures) : futures[k].collected

\* A pool that rejects a single worker
C14_Mutant_PoolAccepts(workers) == workers > 1

\* A loop over as_completed that does not wait for any future
C20_Mutant_AllCollected(futures) == TRUE

\* ThreadPoolExecutor rejects max_workers <= 0 with a ValueError
PoolAccepts(workers) == workers > 0

\* A pool that runs again a task that returned nothing
C28_Mutant_MayStart(futures, k, workers) ==
    /\ \/ futures[k].state = "queued"
       \/ /\ futures[k].state = "done"
          /\ futures[k].value = <<>>
          /\ ~futures[k].collected
    /\ Running(futures) < workers

\* A worker thread takes the oldest queued task, and the pool has at most
\* max_workers threads
MayStart(futures, k, workers) ==
    /\ futures[k].state = "queued"
    /\ \A j \in 1..(k - 1) : futures[j].state # "queued"
    /\ Running(futures) < workers

\* as_completed has yielded every future
AllCollected(futures) == \A k \in 1..Len(futures) : futures[k].collected

NewFuture(item) == [item |-> item, state |-> "queued", collected |-> FALSE,
                    value |-> <<>>]

---------------------------------------------------------------------------
(* services.py: fetch_all_news, and the results of generate_complete_watchlist *)

\* A fetch_all_news without its try/except around the scraper's call
C13_Mutant_FetchRaises(outcome) == outcome.kind = "raises"

\* Whether fetch_all_news raises: its try/except catches every Exception of
\* the scraper's call
FetchRaises(outcome) == FALSE

\* all_news, the list fetch_all_news returns
fetch_all_news(outcome) ==
    IF outcome.kind = "raises" THEN <<>>
    ELSE [i \in 1..Len(outcome.news_data_list) |-> NewsItem(i)]

\* The stats dict of fetch_all_news when it returns
FetchStats(outcome) ==
    IF outcome.kind = "raises" THEN [total_fetched |-> 0, errors |-> 1]
    ELSE [total_fetched |-> Len(outcome.news_data_list), errors |-> 0]

\* A generate_complete_watchlist without its early return on no news
C11_Mutant_NoNews(fetched) == FALSE

\* if not news_items, in generate_complete_watchlist
NoNews(fetched) == fetched = <<>>

isoformat(datetime) == [isoformat |-> datetime]

\* serialize_item(item.dict())
serialize_item(item) ==
    [item EXCEPT !.latest_news_datetime = isoformat(@[1])]

Serialized(list) == [i \in 1..Len(list) |-> serialize_item(list[i])]

\* An early return that forgets how many items were fetched
C12_Mutant_EmptyResult(fetched, date) ==
    [watchlist |-> <<>>,
     metadata |-> [generated_at |-> date,
                   total_news_fetched |-> 0,
                   total_analyzed |-> 0,
                   watchlist_size |-> 0]]

\* The dict of the two early returns
EmptyResult(fetched, date) ==
    [watchlist |-> <<>>,
     metadata |-> [generated_at |-> date,
                   total_news_fetched |-> fetched,
                   total_analyzed |-> 0,
                   watchlist_size |-> 0]]

\* A full path that lists every entry as bullish
C21_Mutant_CompleteResult(list, fetched, analyzed, date) ==
    [watchlist |-> Serialized(list),
     bullish_stocks |-> Serialized(list),
     bearish_stocks |-> Serialized(SelectSeq(list, LAMBDA item : item.direction = "BEARISH")),
     metadata |-> [generated_at |-> date,
                   total_news_fetched |-> fetched,
                   total_analyzed |-> analyzed,
                   watchlist_size |-> Len(list),
                   bullish_count |-> Len(list),
                   bearish_count |-> Len(SelectSeq(list, LAMBDA item : item.direction = "BEARISH"))]]

\* The dict of the full path
CompleteResult(list, fetched, analyzed, date) ==
    LET bullish_stocks == SelectSeq(list, LAMBDA item : item.direction = "BULLISH")
        bearish_stocks == SelectSeq(list, LAMBDA item : item.direction = "BEARISH")
    IN [watchlist |-> Serialized(list),
        bullish_stocks |-> Serialized(bullish_stocks),
        bearish_stocks |-> Serialized(bearish_stocks),
        metadata |-> [generated_at |-> date,
                      total_news_fetched |-> fetched,
                      total_analyzed |-> analyzed,
                      watchlist_size |-> Len(list),
                      bullish_count |-> Len(bullish_stocks),
                      bearish_count |-> Len(bearish_stocks)]]

NoCalls == [extract_calls |-> 0, extraction |-> "not called",
            analyze_calls |-> 0, analysis |-> "not called"]

---------------------------------------------------------------------------
(* The pipeline: generate_complete_watchlist and the worker threads *)

Init ==
    /\ analyses = <<>>
    /\ max_watchlist_size \in 1..MaxSize
    /\ today = Dates[1]
    /\ watchlist = <<>>
    /\ runs = <<>>
    /\ pc = "start"
    /\ max_workers \in 1..MaxWorkers
    /\ news_items = <<>>
    /\ symbol_futures = <<>>
    /\ analysis_futures = <<>>
    /\ items_with_symbols = <<>>
    /\ stats = [total |-> 0, with_symbols |-> 0, analyzed |-> 0, errors |-> 0]
    /\ result = <<>>
    /\ calls = <<>>
    /\ fetch_stats = [total_fetched |-> 0, errors |-> 0]
    /\ feed = <<>>
    /\ unique_news = <<>>
    /\ kwargs = <<>>

\* generate_complete_watchlist up to the first executor: fetch_all_news, the
\* early return on no news, the start of analyze_all_news
FetchAllNews ==
    /\ pc = "start"
    /\ \E outcome \in FetchOutcomes :
         LET returned == ScraperResult(outcome)
             fetched == fetch_all_news(returned)
         IN /\ feed' = IF outcome.kind = "raises" THEN <<>> ELSE outcome.entries
            /\ unique_news' = IF outcome.kind = "raises" THEN <<>>
                              ELSE returned.news_data_list
            /\ fetch_stats' = FetchStats(returned)
            /\ news_items' = fetched
            /\ calls' = [i \in 1..Len(fetched) |-> NoCalls]
            /\ IF FetchRaises(returned)
               THEN /\ result' = result
                    /\ pc' = "raised"
                    /\ stats' = stats
               ELSE IF NoNews(fetched)
               THEN /\ result' = <<EmptyResult(0, today)>>
                    /\ pc' = "returned"
                    /\ stats' = stats
               ELSE /\ result' = result
                    /\ pc' = IF PoolAccepts(max_workers) THEN "extract_submit"
                             ELSE "raised"
                    /\ stats' = [stats EXCEPT !.total = Len(fetched)]
    /\ UNCHANGED <<max_workers, symbol_futures, analysis_futures,
                   items_with_symbols>>
    /\ UNCHANGED aggVars
    /\ UNCHANGED kwargs

\* executor.submit(self._extract_symbol_for_item, item), for the next item
SubmitExtraction ==
    /\ pc = "extract_submit"
    /\ LET i == Len(symbol_futures) + 1
       IN /\ symbol_futures' = Append(symbol_futures, NewFuture(i))
          /\ pc' = IF i = Len(news_items) THEN "extract_collect" ELSE pc
    /\ UNCHANGED <<max_workers, news_items, analysis_futures,
                   items_with_symbols, stats, result, calls>>
    /\ UNCHANGED aggVars
    /\ UNCHANGED fetchVars
    /\ UNCHANGED kwargs

\* A worker thread starts the task of future k: the adapter call is in progress
StartExtraction(k) ==
    /\ MayStart(symbol_futures, k, max_workers)
    /\ symbol_futures' = [symbol_futures EXCEPT ![k].state = "running"]
    /\ UNCHANGED <<pc, max_workers, news_items, analysis_futures,
                   items_with_symbols, stats, result, calls>>
    /\ UNCHANGED aggVars
    /\ UNCHANGED fetchVars
    /\ UNCHANGED kwargs

\* The adapter call of future k ends and _extract_symbol_for_item returns
FinishExtraction(k) ==
    /\ symbol_futures[k].state = "running"
    /\ LET i == symbol_futures[k].item
       IN \E outcome \in ExtractOutcomes(i) :
            /\ news_items' = [news_items EXCEPT
                                ![i] = extract_symbol_for_item(@, outcome)]
            /\ calls' = [calls EXCEPT
                           ![i].extract_calls = @ + 1,
                           ![i].extraction =
                               IF outcome.kind = "raises" THEN "failed"
                               ELSE IF outcome.symbols = <<>> THEN "no symbol"
                               ELSE "symbol"]
            /\ symbol_futures' = [symbol_futures EXCEPT
                                    ![k].state = "done", ![k].value = <<i>>]
    /\ UNCHANGED <<pc, max_workers, analysis_futures, items_with_symbols,
                   stats, result>>
    /\ UNCHANGED aggVars
    /\ UNCHANGED fetchVars
    /\ UNCHANGED kwargs

\* A collection loop that keeps every item
C22_Mutant_HasSymbol(item) == TRUE

\* `if item.stock_symbol:` in the loop over as_completed
HasSymbol(item) == Truthy(item.stock_symbol)

\* One pass of the loop over as_completed in extract_symbols_parallel
CollectExtraction(k) ==
    /\ pc = "extract_collect"
    /\ symbol_futures[k].state = "done"
    /\ ~symbol_futures[k].collected
    /\ symbol_futures' = [symbol_futures EXCEPT ![k].collected = TRUE]
    /\ LET item == symbol_futures[k].value[1]
       IN items_with_symbols' =
            IF HasSymbol(news_items[item])
            THEN Append(items_with_symbols, item)
            ELSE items_with_symbols
    /\ UNCHANGED <<pc, max_workers, news_items, analysis_futures, stats,
                   result, calls>>
    /\ UNCHANGED aggVars
    /\ UNCHANGED fetchVars
    /\ UNCHANGED kwargs

\* extract_symbols_parallel returns; analyze_all_news returns [] when no item
\* has a symbol, and generate_complete_watchlist then returns its early dict
FinishExtractSymbols ==
    /\ pc = "extract_collect"
    /\ AllCollected(symbol_futures)
    /\ stats' = [stats EXCEPT !.with_symbols = Len(items_with_symbols)]
    /\ IF items_with_symbols = <<>>
       THEN /\ result' = <<EmptyResult(Len(news_items), today)>>
            /\ pc' = "returned"
       ELSE /\ result' = result
            /\ pc' = "analyze_submit"
    /\ UNCHANGED <<max_workers, news_items, symbol_futures, analysis_futures,
                   items_with_symbols, calls>>
    /\ UNCHANGED aggVars
    /\ UNCHANGED fetchVars
    /\ UNCHANGED kwargs

\* executor.submit(self._analyze_single_item, item), for the next item
SubmitAnalysis ==
    /\ pc = "analyze_submit"
    /\ LET k == Len(analysis_futures) + 1
       IN /\ analysis_futures' =
                Append(analysis_futures, NewFuture(items_with_symbols[k]))
          /\ pc' = IF k = Len(items_with_symbols) THEN "analyze_collect" ELSE pc
    /\ UNCHANGED <<max_workers, news_items, symbol_futures,
                   items_with_symbols, stats, result, calls>>
    /\ UNCHANGED aggVars
    /\ UNCHANGED fetchVars
    /\ UNCHANGED kwargs

StartAnalysis(k) ==
    /\ MayStart(analysis_futures, k, max_workers)
    /\ analysis_futures' = [analysis_futures EXCEPT ![k].state = "running"]
    /\ UNCHANGED <<pc, max_workers, news_items, symbol_futures,
                   items_with_symbols, stats, result, calls>>
    /\ UNCHANGED aggVars
    /\ UNCHANGED fetchVars
    /\ UNCHANGED kwargs

\* The adapter call of future k ends and _analyze_single_item returns
FinishAnalysis(k) ==
    /\ analysis_futures[k].state = "running"
    /\ LET i == analysis_futures[k].item
       IN \E outcome \in AnalyzeOutcomes(i) :
            LET analysis == analyze_single_item(news_items[i], outcome)
            IN /\ analysis_futures' = [analysis_futures EXCEPT
                                         ![k].state = "done",
                                         ![k].value = analysis]
               /\ calls' = [calls EXCEPT
                              ![i].analyze_calls = @ + 1,
                              ![i].analysis =
                                  IF outcome.kind = "raises" THEN "raised"
                                  ELSE IF outcome.payload = FeedPayload(i)
                                       THEN "answered"
                                  ELSE "malformed"]
    /\ UNCHANGED <<pc, max_workers, news_items, symbol_futures,
                   items_with_symbols, stats, result>>
    /\ UNCHANGED aggVars
    /\ UNCHANGED fetchVars
    /\ UNCHANGED kwargs

\* What one pass of the loop over as_completed in analyze_all_news makes of
\* the list and the stats, given future.result()
\* A loop in which a failed item empties the list
C1_Mutant_CollectedAnalyses(list, value) == IF value # <<>> THEN list \o value ELSE <<>>

\* A loop that appends every result twice
C30_Mutant_CollectedAnalyses(list, value) == IF value # <<>> THEN list \o value \o value ELSE list

CollectedAnalyses(list, value) == IF value # <<>> THEN list \o value ELSE list

CollectedStats(counts, value) ==
    IF value # <<>> THEN [counts EXCEPT !.analyzed = @ + 1]
    ELSE [counts EXCEPT !.errors = @ + 1]

CollectAnalysis(k) ==
    /\ pc = "analyze_collect"
    /\ analysis_futures[k].state = "done"
    /\ ~analysis_futures[k].collected
    /\ analysis_futures' = [analysis_futures EXCEPT ![k].collected = TRUE]
    /\ analyses' = CollectedAnalyses(analyses, analysis_futures[k].value)
    /\ stats' = CollectedStats(stats, analysis_futures[k].value)
    /\ UNCHANGED <<pc, max_workers, news_items, symbol_futures,
                   items_with_symbols, result, calls>>
    /\ UNCHANGED <<max_watchlist_size, today, watchlist, runs>>
    /\ UNCHANGED fetchVars
    /\ UNCHANGED kwargs

\* analyze_all_news returns; generate_complete_watchlist returns its early
\* dict when there is no analysis
ReturnAnalyses ==
    /\ pc = "analyze_collect"
    /\ AllCollected(analysis_futures)
    /\ IF analyses = <<>>
       THEN /\ result' = <<EmptyResult(Len(news_items), today)>>
            /\ pc' = "returned"
       ELSE /\ result' = result
            /\ pc' = "aggregate"
    /\ UNCHANGED <<max_workers, news_items, symbol_futures, analysis_futures,
                   items_with_symbols, stats, calls>>
    /\ UNCHANGED aggVars
    /\ UNCHANGED fetchVars
    /\ UNCHANGED kwargs

\* Step 3 of generate_complete_watchlist
GenerateStep ==
    /\ pc = "aggregate"
    /\ GenerateWatchlist
    /\ pc' = "respond"
    /\ UNCHANGED <<max_workers, news_items, symbol_futures, analysis_futures,
                   items_with_symbols, stats, result, calls>>
    /\ UNCHANGED fetchVars
    /\ UNCHANGED kwargs

\* The dict of the full path is built and returned
Respond ==
    /\ pc = "respond"
    /\ result' = <<CompleteResult(watchlist, Len(news_items), Len(analyses), today)>>
    /\ pc' = "returned"
    /\ UNCHANGED <<max_workers, news_items, symbol_futures, analysis_futures,
                   items_with_symbols, stats, calls>>
    /\ UNCHANGED aggVars
    /\ UNCHANGED fetchVars
    /\ UNCHANGED kwargs

\* The steps of the calling thread inside analyze_all_news
AnalyzeAllNews ==
    \/ SubmitExtraction
    \/ \E k \in 1..Len(symbol_futures) : CollectExtraction(k)
    \/ FinishExtractSymbols
    \/ SubmitAnalysis
    \/ \E k \in 1..Len(analysis_futures) : CollectAnalysis(k)
    \/ ReturnAnalyses

MainThread ==
    \/ FetchAllNews
    \/ AnalyzeAllNews
    \/ GenerateStep
    \/ Respond

WorkerStart ==
    \/ \E k \in 1..Len(symbol_futures) : StartExtraction(k)
    \/ \E k \in 1..Len(analysis_futures) : StartAnalysis(k)

AdapterReturn ==
    \/ \E k \in 1..Len(symbol_futures) : FinishExtraction(k)
    \/ \E k \in 1..Len(analysis_futures) : FinishAnalysis(k)

Next == MainThread \/ WorkerStart \/ AdapterReturn

Spec == Init /\ [][Next]_vars

\* The service as __init__ leaves it for any MAX_WATCHLIST_SIZE and
\* MAX_PARALLEL_WORKERS that int() parses: __init__ tests neither value
InitConfig ==
    /\ analyses = <<>>
    /\ max_watchlist_size \in 0..MaxSize
    /\ today = Dates[1]
    /\ watchlist = <<>>
    /\ runs = <<>>
    /\ pc = "start"
    /\ max_workers \in 0..MaxWorkers
    /\ news_items = <<>>
    /\ symbol_futures = <<>>
    /\ analysis_futures = <<>>
    /\ items_with_symbols = <<>>
    /\ stats = [total |-> 0, with_symbols |-> 0, analyzed |-> 0, errors |-> 0]
    /\ result = <<>>
    /\ calls = <<>>
    /\ fetch_stats = [total_fetched |-> 0, errors |-> 0]
    /\ feed = <<>>
    /\ unique_news = <<>>
    /\ kwargs = <<>>

SpecConfig == InitConfig /\ [][Next]_vars

\* The thread inside analyze_all_news and the pool's workers take the steps
\* they can take, and every adapter call returns or raises in the end
FairSpec ==
    /\ Spec
    /\ WF_vars(AnalyzeAllNews)
    /\ WF_vars(WorkerStart)
    /\ WF_vars(AdapterReturn)

---------------------------------------------------------------------------
(* What the claims speak of, computed from a run's input alone *)

Range(seq) == {seq[i] : i \in 1..Len(seq)}

\* The analyses of a symbol, in the list's order
GroupOf(list, symbol) ==
    SelectSeq(list, LAMBDA a : a.stock_symbol = symbol)

RECURSIVE SumBias(_)
SumBias(list) ==
    IF list = <<>> THEN 0 ELSE Head(list).bias_score + SumBias(Tail(list))

CountOf(list, direction) ==
    Cardinality({i \in 1..Len(list) : list[i].direction = direction})

\* Where a symbol first appears in a list of analyses
FirstIndex(list, symbol) ==
    CHOOSE i \in 1..Len(list) :
        /\ list[i].stock_symbol = symbol
        /\ \A j \in 1..(i - 1) : list[j].stock_symbol # symbol

\* The same analyses, in any order (news_id tells the analyses apart)
SameSet(a, b) == Len(a) = Len(b) /\ Range(a) = Range(b)

\* What C9 compares of an entry
EntryCore(item) ==
    [stock_symbol |-> item.stock_symbol,
     direction |-> item.direction,
     priority |-> item.priority,
     bias_score |-> item.bias_score,
     reason |-> item.reason]

Cores(list) == [i \in 1..Len(list) |-> EntryCore(list[i])]

---------------------------------------------------------------------------
(* Claims about generate_watchlist *)

\* C5: no entry generate_watchlist returns has direction NEUTRAL, also when
\* NEUTRAL ties with another direction for the highest count of its group.
C5_NoNeutralEntry ==
    \A r \in Range(runs) : \A item \in Range(r.output) :
        item.direction # "NEUTRAL"

\* A run returned an entry for a group in which NEUTRAL has as many
\* analyses as the entry's direction, and no direction has more.
C5_Witness ==
    \E r \in Range(runs) : \E item \in Range(r.output) :
        LET group == GroupOf(r.input, item.stock_symbol)
        IN /\ CountOf(group, "NEUTRAL") = CountOf(group, item.direction)
           /\ \A d \in Direction : CountOf(group, d) <= CountOf(group, "NEUTRAL")

\* C6: no entry generate_watchlist returns has priority LOW: the average
\* bias score of its group is at least 1.5 (6 quarters).
C6_NoLowPriorityEntry ==
    \A r \in Range(runs) : \A item \in Range(r.output) :
        LET group == GroupOf(r.input, item.stock_symbol)
        IN /\ item.priority # "LOW"
           /\ SumBias(group) >= 6 * Len(group)
           /\ FracGeq(item.bias_score, Frac(6, 1))

\* A run returned an entry and left out a symbol whose analyses are all
\* BULLISH and average less than 1.5.
C6_Witness ==
    \E r \in Range(runs) : \E a \in Range(r.input) :
        LET group == GroupOf(r.input, a.stock_symbol)
        IN /\ r.output # <<>>
           /\ CountOf(group, "BULLISH") = Len(group)
           /\ SumBias(group) < 6 * Len(group)
           /\ \A item \in Range(r.output) : item.stock_symbol # a.stock_symbol

\* C7: the returned watchlist is ordered by bias_score, greatest first, and
\* entries of equal bias_score are in the order in which their symbols first
\* appear in the analyses.
C7_SortedStable ==
    \A r \in Range(runs) : \A i, j \in 1..Len(r.output) :
        i < j =>
            /\ FracGeq(r.output[i].bias_score, r.output[j].bias_score)
            /\ FracEq(r.output[i].bias_score, r.output[j].bias_score)
                  => FirstIndex(r.input, r.output[i].stock_symbol)
                       < FirstIndex(r.input, r.output[j].stock_symbol)

\* A run returned two entries of equal bias_score.
C7_Witness ==
    \E r \in Range(runs) : \E i, j \in 1..Len(r.output) :
        i < j /\ FracEq(r.output[i].bias_score, r.output[j].bias_score)

\* C8: with n qualifying symbols and maximum size M >= 1 the returned
\* watchlist has min(n, M) entries, each a qualifying one, and no qualifying
\* entry left out has a greater bias_score than one that was kept.
C8_TopEntriesKept ==
    \A r \in Range(runs) :
        LET qualifying == Qualifying(r.input, r.date)
        IN r.size >= 1 =>
            /\ Len(r.output) = Min(Len(qualifying), r.size)
            /\ Range(r.output) \subseteq Range(qualifying)
            /\ \A out \in Range(qualifying) \ Range(r.output) :
                  \A kept \in Range(r.output) :
                      ~FracGt(out.bias_score, kept.bias_score)

\* A run had more qualifying symbols than the maximum size, one of them
\* scoring more than another.
C8_Witness ==
    \E r \in Range(runs) :
        LET qualifying == Qualifying(r.input, r.date)
        IN /\ Len(qualifying) > r.size
           /\ Len(r.output) = r.size
           /\ \E a, b \in Range(qualifying) : FracGt(a.bias_score, b.bias_score)

\* C9: two runs over the same analyses in two orders return the same
\* entries (symbol, direction, priority, score, reason) in the same order.
C9_OrderIndependent ==
    \A r1, r2 \in Range(runs) :
        SameSet(r1.input, r2.input) => Cores(r1.output) = Cores(r2.output)

---------------------------------------------------------------------------
(* Claims about analyze_all_news and the run metadata *)

\* analyze_all_news has returned to generate_complete_watchlist
AnalyzerReturned ==
    /\ news_items # <<>>
    /\ pc \in {"aggregate", "respond", "returned"}

Terminal(futures) == \A k \in 1..Len(futures) : futures[k].state = "done"

\* The items whose symbol extraction found a symbol and whose analysis call
\* returned a well-formed payload
Succeeded ==
    {i \in 1..Len(news_items) :
        calls[i].extraction = "symbol" /\ calls[i].analysis = "answered"}

\* The items one of whose adapter calls raised or returned a malformed payload
Failed ==
    {i \in 1..Len(news_items) :
        \/ calls[i].extraction = "failed"
        \/ calls[i].analysis \in {"raised", "malformed"}}

ResultsFor(i) == SelectSeq(analyses, LAMBDA a : a.news_id = i)

\* C1: whatever calls fail and in whatever order the workers complete,
\* analyze_all_news does not raise, and the list it returns holds exactly one
\* AnalysisResult for each item whose extraction and analysis both succeeded
\* and none for any other item.
C1_OneResultPerSuccess ==
    /\ pc # "raised"
    /\ AnalyzerReturned =>
         /\ \A i \in 1..Len(news_items) :
                Len(ResultsFor(i)) = IF i \in Succeeded THEN 1 ELSE 0
         /\ \A i \in Succeeded :
                ResultsFor(i)[1].stock_symbol = upper(FeedSymbol(i))
         /\ Len(analyses) = Cardinality(Succeeded)

\* analyze_all_news returned two results, completed in the reverse of the
\* order of submission, for a batch in which an analysis call raised.
C1_Witness ==
    /\ pc = "aggregate"
    /\ Len(analyses) = 2
    /\ analyses[1].news_id > analyses[2].news_id
    /\ \E i \in 1..Len(news_items) : calls[i].analysis = "raised"

\* C2: in both phases of analyze_all_news the number of adapter calls in
\* progress is at most max_workers, however many items were submitted.
C2_AtMostMaxWorkers ==
    /\ Running(symbol_futures) <= max_workers
    /\ Running(analysis_futures) <= max_workers
    /\ Running(symbol_futures) + Running(analysis_futures) <= max_workers

\* More analysis tasks than workers were submitted, max_workers of them are
\* running and another one waits.
C2_Witness ==
    /\ Len(analysis_futures) > max_workers
    /\ Len(symbol_futures) > max_workers
    /\ Running(analysis_futures) = max_workers
    /\ \E k \in 1..Len(analysis_futures) : analysis_futures[k].state = "queued"

\* C3: when analyze_all_news has returned, every task it submitted in either
\* phase is done, none is queued or running; and, every adapter call
\* returning or raising in the end, a call of analyze_all_news returns.
C3_ReturnsAfterAllTasks ==
    /\ [](AnalyzerReturned =>
            /\ Len(symbol_futures) = Len(news_items)
            /\ Terminal(symbol_futures)
            /\ Len(analysis_futures) = Len(items_with_symbols)
            /\ Terminal(analysis_futures))
    /\ (pc = "extract_submit" ~> AnalyzerReturned)

\* analyze_all_news returned after tasks that ended in each of the three
\* ways: a result, no symbol, a failure.
C3_Witness ==
    /\ AnalyzerReturned
    /\ Terminal(symbol_futures)
    /\ Terminal(analysis_futures)
    /\ \E i, j, k \in 1..Len(news_items) :
          /\ calls[i].extraction = "no symbol"
          /\ calls[j].analysis = "malformed"
          /\ calls[k].analysis = "answered"

\* The keys of the metadata that count something other than failures
CountedKeys ==
    {"generated_at", "total_news_fetched", "total_analyzed", "watchlist_size",
     "bullish_count", "bearish_count"}

\* C4: the metadata of the returned result counts the successes and, under
\* a key of its own, the items whose adapter call failed.
C4_MetadataCountsFailures ==
    (pc = "returned" /\ Failed # {}) =>
        LET metadata == result[1].metadata
        IN /\ metadata.total_analyzed = Cardinality(Succeeded)
           /\ \E key \in DOMAIN metadata \ CountedKeys :
                  metadata[key] = Cardinality(Failed)

---------------------------------------------------------------------------
(* Claims about the scraper's removal of duplicates *)

\* The title of entry i with the surrounding whitespace trimmed
TrimmedTitle(i) == strip(feed[i].title)

\* The entries whose trimmed title is not empty and is not the trimmed title
\* of an earlier entry
FirstOccurrences ==
    {i \in 1..Len(feed) :
        /\ TrimmedTitle(i) # <<>>
        /\ \A j \in 1..(i - 1) : TrimmedTitle(j) # TrimmedTitle(i)}

\* C16: fetch_news returns exactly the first occurrences, in the order of the
\* feed: no more items than entries, no two with the same trimmed title, and
\* an entry is left out only if an earlier entry has the identical trimmed
\* title.
C16_FirstOccurrencesKept ==
    pc = "fetched_news" =>
        /\ Len(unique_news) <= Len(feed)
        /\ \A k, l \in 1..Len(unique_news) :
              k < l => /\ unique_news[k].url < unique_news[l].url
                       /\ TrimmedTitle(unique_news[k].url)
                            # TrimmedTitle(unique_news[l].url)
        /\ {unique_news[k].url : k \in 1..Len(unique_news)} = FirstOccurrences

---------------------------------------------------------------------------
(* Claims about generate_complete_watchlist: short circuits, errors, stages *)

\* The result with an empty watchlist and the given count of fetched items
EmptyWith(fetched) ==
    [watchlist |-> <<>>,
     metadata |-> [generated_at |-> today,
                   total_news_fetched |-> fetched,
                   total_analyzed |-> 0,
                   watchlist_size |-> 0]]

\* C11: when the fetch yields no item, generate_complete_watchlist returns
\* the empty watchlist with every count 0, no task of the analyzer was
\* submitted (no adapter call) and generate_watchlist was not called.
C11_NoNewsShortCircuits ==
    (pc # "start" /\ news_items = <<>>) =>
        /\ pc = "returned"
        /\ result = <<EmptyWith(0)>>
        /\ symbol_futures = <<>>
        /\ analysis_futures = <<>>
        /\ calls = <<>>
        /\ runs = <<>>
        /\ watchlist = <<>>

\* The scraper returned an empty list, without raising, and the run is over.
C11_Witness ==
    /\ pc = "returned"
    /\ news_items = <<>>
    /\ fetch_stats.errors = 0
    /\ result # <<>>

\* C12: when items were fetched and the analyzer returned no AnalysisResult,
\* generate_complete_watchlist returns the empty watchlist with
\* total_analyzed 0, watchlist_size 0 and the number of fetched items, and
\* generate_watchlist was not called.
C12_NoAnalysesShortCircuits ==
    (pc = "returned" /\ news_items # <<>> /\ analyses = <<>>) =>
        /\ result = <<EmptyWith(Len(news_items))>>
        /\ runs = <<>>
        /\ watchlist = <<>>

\* Two items were fetched, one had no symbol and the analysis of the other
\* failed, and the run is over.
C12_Witness ==
    /\ pc = "returned"
    /\ Len(news_items) = 2
    /\ analyses = <<>>
    /\ \E i, j \in 1..2 : /\ calls[i].extraction = "no symbol"
                          /\ calls[j].analysis \in {"raised", "malformed"}

\* C13: when scraper.fetch_news raises, generate_complete_watchlist does not
\* raise and returns the empty result with every count 0.
C13_FetchErrorIsNoNews ==
    (pc # "start" /\ fetch_stats.errors > 0) =>
        /\ pc = "returned"
        /\ news_items = <<>>
        /\ result = <<EmptyWith(0)>>

\* The scraper raised and the run is over.
C13_Witness ==
    /\ pc = "returned"
    /\ fetch_stats.errors = 1
    /\ fetch_stats.total_fetched = 0

\* C14: with max_workers >= 1 and max_watchlist_size >= 1,
\* generate_complete_watchlist never raises, whatever the scraper and the
\* adapter calls do: it returns a result whose counts are those of the items
\* that got through.
C14_NeverRaises ==
    /\ pc # "raised"
    /\ pc = "returned" =>
         /\ result # <<>>
         /\ result[1].metadata.total_news_fetched = Len(news_items)
         /\ result[1].metadata.total_analyzed = Cardinality(Succeeded)
         /\ result[1].metadata.watchlist_size = Len(result[1].watchlist)
         /\ result[1].metadata.total_analyzed <= Len(news_items)

\* A run returned a watchlist although an extraction call raised and an
\* analysis call returned a malformed payload.
C14_Witness ==
    /\ pc = "returned"
    /\ result[1].watchlist # <<>>
    /\ \E i, j \in 1..Len(news_items) :
          /\ calls[i].extraction = "failed"
          /\ calls[j].analysis = "malformed"

\* The stages: 0 before the fetch, 1 the analyzer (the fetch and the removal
\* of duplicates are the step into it), 2 the aggregation and ranking,
\* 3 after them
Stage(at) ==
    CASE at = "start" -> 0
      [] at \in {"extract_submit", "extract_collect", "analyze_submit",
                 "analyze_collect"} -> 1
      [] at = "aggregate" -> 2
      [] OTHER -> 3

\* C20: in a run the stages follow one another and none is entered again:
\* the feed is read and its duplicates removed only in the step that leaves
\* the start, tasks are submitted, run and collected only in the analyzer's
\* stage, and generate_watchlist is called once at most, after every task of
\* the analyzer is done and collected.
C20_StagesInOrder ==
    [][/\ Stage(pc') >= Stage(pc)
       /\ (feed' # feed \/ unique_news' # unique_news \/ fetch_stats' # fetch_stats
             \/ Len(news_items') # Len(news_items))
            => pc = "start"
       /\ (symbol_futures' # symbol_futures \/ analysis_futures' # analysis_futures
             \/ analyses' # analyses)
            => Stage(pc) = 1
       /\ symbol_futures' # symbol_futures => analysis_futures = <<>>
       /\ runs' # runs =>
            /\ pc = "aggregate"
            /\ runs = <<>>
            /\ AllCollected(symbol_futures) /\ Terminal(symbol_futures)
            /\ AllCollected(analysis_futures) /\ Terminal(analysis_futures)
            /\ Len(symbol_futures) = Len(news_items)
            /\ Len(analysis_futures) = Len(items_with_symbols)]_vars

\* A run went through every stage: a feed with a repeated title, three news
\* items, a watchlist.
C20_Witness ==
    /\ pc = "returned"
    /\ Len(feed) > Len(unique_news)
    /\ Len(news_items) = 3
    /\ Len(runs) = 1
    /\ result[1].watchlist # <<>>

\* C15: a service whose max_workers or max_watchlist_size is less than 1
\* does not get past its start: no feed is read, no task is submitted and no
\* watchlist is cut with such a value.
C15_InvalidConfigRejected ==
    (max_workers < 1 \/ max_watchlist_size < 1) =>
        /\ pc = "start"
        /\ fetch_stats = [total_fetched |-> 0, errors |-> 0]
        /\ symbol_futures = <<>>
        /\ runs = <<>>

---------------------------------------------------------------------------
(* Claims about the model classes and the validation of a payload *)

\* C17: the bias_score of every AnalysisResult is the product of its
\* impact_strength and its confidence, whatever bias_score its maker passed.
C17_BiasScoreIsProduct ==
    pc = "constructed" =>
        \A a \in Range(analyses) :
            a.bias_score = a.impact_strength * a.confidence

\* The value brought into the range lo..hi
Clamp(v, lo, hi) == Max(lo, Min(v, hi))

InRange(payload) ==
    /\ payload.impact_strength \in IMPACT_MIN..IMPACT_MAX
    /\ payload.confidence \in CONFIDENCE_MIN..CONFIDENCE_MAX

\* C18: a payload whose impact_strength or confidence is out of range, and
\* which is well formed otherwise, still gives an AnalysisResult, with the
\* value brought into 1..5 and 0.0..1.0.
C18_OutOfRangeClamped ==
    (pc = "analyzed" /\ kwargs.rationale.length <= RATIONALE_MAX_LENGTH) =>
        /\ Len(analyses) = 1
        /\ analyses[1].impact_strength
             = Clamp(kwargs.impact_strength, IMPACT_MIN, IMPACT_MAX)
        /\ analyses[1].confidence
             = Clamp(kwargs.confidence, CONFIDENCE_MIN, CONFIDENCE_MAX)

\* C19: a payload in range gives an AnalysisResult whose event type is the
\* payload's when that is one of the five tags and Other when not, and whose
\* direction is the payload's in upper case when that is one of the three
\* tags and NEUTRAL when not.
C19_EnumDefaults ==
    (pc = "analyzed" /\ InRange(kwargs)
       /\ kwargs.rationale.length <= RATIONALE_MAX_LENGTH) =>
        /\ Len(analyses) = 1
        /\ analyses[1].event_type =
              IF kwargs.event_type \in EventType THEN kwargs.event_type ELSE "Other"
        /\ analyses[1].direction =
              IF upper(kwargs.direction) \in Direction THEN upper(kwargs.direction)
              ELSE "NEUTRAL"
        /\ analyses[1].bias_score = kwargs.impact_strength * kwargs.confidence

\* A payload with an unknown event type and an unknown direction was
\* analysed and its item emitted with Other and NEUTRAL.
C19_Witness ==
    /\ pc = "analyzed"
    /\ kwargs.event_type = "Merger"
    /\ kwargs.direction = "sideways"
    /\ Len(analyses) = 1
    /\ analyses[1].event_type = "Other"
    /\ analyses[1].direction = "NEUTRAL"


---------------------------------------------------------------------------
(* Claims about the returned dict *)

\* The result came from the full path: generate_watchlist was called
FullPath == pc = "returned" /\ runs # <<>>

WithDirection(list, direction) ==
    SelectSeq(list, LAMBDA item : item.direction = direction)

\* C21: in the result of the full path the primary watchlist holds every
\* entry generate_watchlist returned, in rank order; bullish_stocks is its
\* subsequence of BULLISH entries and bearish_stocks its subsequence of
\* BEARISH entries; every entry is in exactly one of the two, so that
\* bullish_count + bearish_count = watchlist_size.
C21_PartitionByDirection ==
    FullPath =>
        LET r == result[1]
        IN /\ r.watchlist = Serialized(watchlist)
           /\ r.bullish_stocks = WithDirection(r.watchlist, "BULLISH")
           /\ r.bearish_stocks = WithDirection(r.watchlist, "BEARISH")
           /\ \A i \in 1..Len(r.watchlist) :
                  r.watchlist[i].direction \in {"BULLISH", "BEARISH"}
           /\ r.metadata.bullish_count = Len(r.bullish_stocks)
           /\ r.metadata.bearish_count = Len(r.bearish_stocks)
           /\ r.metadata.bullish_count + r.metadata.bearish_count
                = r.metadata.watchlist_size

\* A result whose watchlist has a bullish and a bearish entry.
C21_Witness ==
    /\ FullPath
    /\ Len(result[1].watchlist) = 2
    /\ Len(result[1].bullish_stocks) = 1
    /\ Len(result[1].bearish_stocks) = 1


---------------------------------------------------------------------------
(* Claims about the two phases of analyze_all_news *)

\* The items for which the adapter found no symbol
NoSymbol == {i \in 1..Len(news_items) : calls[i].extraction = "no symbol"}

\* The items whose analysis call raised or returned a malformed payload
AnalysisFailed ==
    {i \in 1..Len(news_items) : calls[i].analysis \in {"raised", "malformed"}}

\* C22: an item for which the adapter reports no symbol is not among the
\* items handed to the analysis phase, its analysis call is never made, it
\* has no AnalysisResult, and the error count counts only items whose
\* analysis failed; every item that reaches the analysis phase has a symbol.
C22_NoSymbolDropped ==
    /\ \A i \in NoSymbol :
          /\ i \notin Range(items_with_symbols)
          /\ \A k \in 1..Len(analysis_futures) : analysis_futures[k].item # i
          /\ calls[i].analyze_calls = 0
          /\ calls[i].analysis = "not called"
          /\ ResultsFor(i) = <<>>
    /\ \A k \in 1..Len(items_with_symbols) :
          calls[items_with_symbols[k]].extraction = "symbol"
    /\ stats.errors <= Cardinality(AnalysisFailed)
    /\ pc # "raised"

\* The run returned a watchlist although one item had no symbol, and
\* nothing was counted as an error.
C22_Witness ==
    /\ FullPath
    /\ NoSymbol # {}
    /\ stats.errors = 0
    /\ Len(analyses) = Len(news_items) - Cardinality(NoSymbol)


---------------------------------------------------------------------------
(* Claims about the AnalysisResult constructor *)

\* C23: the constructor called with an impact_strength outside 1..5 makes no
\* object, and every AnalysisResult it makes has impact_strength in 1..5.
C23_ImpactStrengthValidated ==
    pc = "constructed" =>
        /\ kwargs.impact_strength \notin IMPACT_MIN..IMPACT_MAX => analyses = <<>>
        /\ \A a \in Range(analyses) : a.impact_strength \in IMPACT_MIN..IMPACT_MAX

\* The constructor was called with impact_strength 6 and arguments valid
\* otherwise, and made no object.
C23_Witness ==
    /\ pc = "constructed"
    /\ kwargs.impact_strength = IMPACT_MAX + 1
    /\ "bias_score" \in DOMAIN kwargs
    /\ kwargs.bias_score # <<>>
    /\ kwargs.bias_score[1] <= BIAS_SCORE_MAX
    /\ analyses = <<>>


---------------------------------------------------------------------------
(* Claims about the grouping by symbol *)

\* The spellings of a symbol that differ from it in letter case only
CaseVariants(symbol) ==
    CASE symbol = "TCS" -> {"TCS", "tcs", "Tcs"}
      [] symbol = "INFY" -> {"INFY", "infy", "Infy"}
      [] OTHER -> {symbol}

\* The analyses whose item the adapter gave a spelling of the symbol
SpelledLike(symbol) ==
    {k \in 1..Len(analyses) :
        FeedSymbol(analyses[k].news_id) \in CaseVariants(symbol)}

\* C24: every AnalysisResult stores its symbol in upper case, whatever the
\* case the adapter gave it in; the watchlist has at most one entry per
\* symbol, and the entry of a symbol counts every analysis whose symbol
\* differs from it in letter case only.
C24_GroupedByUppercasedSymbol ==
    /\ \A a \in Range(analyses) :
          /\ a.stock_symbol \in Symbols
          /\ FeedSymbol(a.news_id) \in CaseVariants(a.stock_symbol)
    /\ runs # <<>> =>
          \A i \in 1..Len(watchlist) :
             /\ watchlist[i].stock_symbol \in Symbols
             /\ watchlist[i].news_count
                  = Cardinality(SpelledLike(watchlist[i].stock_symbol))
             /\ \A j \in 1..Len(watchlist) :
                   watchlist[j].stock_symbol = watchlist[i].stock_symbol => j = i

\* The adapter named TCS for one item and tcs for another, and the
\* watchlist has one entry TCS that counts both.
C24_Witness ==
    /\ FullPath
    /\ \E a, b \in Range(analyses) :
          FeedSymbol(a.news_id) = "TCS" /\ FeedSymbol(b.news_id) = "tcs"
    /\ \E i \in 1..Len(watchlist) :
          watchlist[i].stock_symbol = "TCS" /\ watchlist[i].news_count = 2


---------------------------------------------------------------------------
(* Claims about the entry generate_watchlist makes of a group *)

\* The orders in which the three directions can be ranked
DirectionOrders ==
    {order \in [1..3 -> Direction] :
        \A i, j \in 1..3 : order[i] = order[j] => i = j}

\* The directions whose count in the group is the greatest
MaxDirections(group) ==
    {d \in Direction :
        /\ CountOf(group, d) > 0
        /\ \A e \in Direction : CountOf(group, e) <= CountOf(group, d)}

\* The direction of the set that comes first in the order
FirstInOrder(order, directions) ==
    order[CHOOSE i \in 1..3 :
              /\ order[i] \in directions
              /\ \A j \in 1..(i - 1) : order[j] \notin directions]

\* C25: there is one order of the directions such that, in every run, the
\* direction of every entry has the greatest count in its group and is, of
\* the directions with that count, the first in the order.
C25_DominantByFixedOrder ==
    \E order \in DirectionOrders :
        \A r \in Range(runs) :
            \A i \in 1..Len(r.output) :
                LET group == GroupOf(r.input, r.output[i].stock_symbol)
                IN /\ r.output[i].direction \in MaxDirections(group)
                   /\ r.output[i].direction
                        = FirstInOrder(order, MaxDirections(group))


\* The first analysis of the group with the highest bias_score
BestOf(group) ==
    group[CHOOSE k \in 1..Len(group) :
              /\ \A j \in 1..Len(group) : group[j].bias_score <= group[k].bias_score
              /\ \A j \in 1..(k - 1) : group[j].bias_score < group[k].bias_score]

\* C26: the reason of every entry is the rationale of the analysis of its
\* group with the highest bias_score, and of the first such analysis in the
\* order of the list when several share that score.
C26_ReasonOfBestAnalysis ==
    \A r \in Range(runs) :
        \A i \in 1..Len(r.output) :
            r.output[i].reason
              = BestOf(GroupOf(r.input, r.output[i].stock_symbol)).rationale

\* An entry made of two analyses with the same bias_score, whose reason is
\* the rationale of the first.
C26_Witness ==
    \E r \in Range(runs) :
        \E i \in 1..Len(r.output) :
            LET group == GroupOf(r.input, r.output[i].stock_symbol)
            IN /\ Len(group) = 2
               /\ group[1].bias_score = group[2].bias_score
               /\ group[1].rationale # group[2].rationale
               /\ r.output[i].reason = group[1].rationale


\* Three analyses of TCS with bias scores 4.0, 3.0 and 2.0 (in quarters:
\* 16, 12, 8) and directions BULLISH, BULLISH, BEARISH
ScenarioTCS ==
    [i \in 1..3 |->
        AnalysisResult([news_id |-> i,
                        stock_symbol |-> "TCS",
                        event_type |-> "Earnings",
                        direction |-> IF i = 3 THEN "BEARISH" ELSE "BULLISH",
                        impact_strength |-> 5 - i,
                        confidence |-> 4,
                        rationale |-> [of |-> i, length |-> 40],
                        bias_score |-> <<(5 - i) * 4>>,
                        news_published_at |-> i])[1]]

\* C27: the bias_score of every entry is the total of the bias scores of
\* its group divided by news_count, the number of the group's analyses; its
\* priority is HIGH exactly when that average is at least 2.5 (10 quarters)
\* and MEDIUM exactly when it is at least 1.5 (6 quarters) and below 2.5.
\* The three analyses of the scenario give one entry: BULLISH, average 3.0,
\* HIGH, the reason that of the analysis with score 4.0.
C27_AverageAndPriority ==
    /\ \A r \in Range(runs) :
          \A i \in 1..Len(r.output) :
             LET item == r.output[i]
                 group == GroupOf(r.input, item.stock_symbol)
             IN /\ item.news_count = Len(group)
                /\ FracEq(item.bias_score, Frac(SumBias(group), Len(group)))
                /\ item.priority = "HIGH" <=> SumBias(group) >= 10 * Len(group)
                /\ item.priority = "MEDIUM" <=>
                      /\ SumBias(group) >= 6 * Len(group)
                      /\ SumBias(group) < 10 * Len(group)
    /\ LET made == generate_watchlist(ScenarioTCS, 1, Dates[1])
       IN /\ Len(made) = 1
          /\ made[1].direction = "BULLISH"
          /\ FracEq(made[1].bias_score, Frac(12, 1))
          /\ made[1].priority = "HIGH"
          /\ made[1].reason = ScenarioTCS[1].rationale
          /\ made[1].news_count = 3

\* An entry of priority MEDIUM made of two analyses, one scoring 2.5 and
\* one 1.0: the average is 1.75.
C27_Witness ==
    \E r \in Range(runs) :
        \E i \in 1..Len(r.output) :
            LET group == GroupOf(r.input, r.output[i].stock_symbol)
            IN /\ Len(group) = 2
               /\ {group[1].bias_score, group[2].bias_score} = {4, 10}
               /\ r.output[i].priority = "MEDIUM"
               /\ FracEq(r.output[i].bias_score, Frac(7, 1))


---------------------------------------------------------------------------
(* Claims about the adapter calls and the returned dict *)

TasksFor(futures, i) == {k \in 1..Len(futures) : futures[k].item = i}

\* C28: in a run of analyze_all_news one task at most is submitted per item
\* in each phase, and for every item the symbol-extraction call is made at
\* most once and the analysis call at most once, whether the call succeeded
\* or failed.
C28_NoRetry ==
    \A i \in 1..Len(news_items) :
        /\ Cardinality(TasksFor(symbol_futures, i)) <= 1
        /\ Cardinality(TasksFor(analysis_futures, i)) <= 1
        /\ calls[i].extract_calls <= 1
        /\ calls[i].analyze_calls <= 1
        /\ calls[i].extraction # "not called" => calls[i].extract_calls = 1
        /\ calls[i].analysis # "not called" => calls[i].analyze_calls = 1

\* The run ended after the extraction call of one item and the analysis
\* call of another had failed, each made once.
C28_Witness ==
    /\ pc = "returned"
    /\ \E i, j \in 1..Len(news_items) :
          /\ calls[i].extraction = "failed"
          /\ calls[i].extract_calls = 1
          /\ calls[j].analysis \in {"raised", "malformed"}
          /\ calls[j].analyze_calls = 1


ResultKeys == {"watchlist", "bullish_stocks", "bearish_stocks", "metadata"}

\* C29: every returned dict has the keys watchlist, bullish_stocks,
\* bearish_stocks and metadata, and its metadata the keys generated_at,
\* total_news_fetched, total_analyzed, watchlist_size, bullish_count and
\* bearish_count, on the early returns as on the full path.
C29_SameShape ==
    pc = "returned" =>
        /\ DOMAIN result[1] = ResultKeys
        /\ DOMAIN result[1].metadata = CountedKeys

\* C30: in every returned dict watchlist_size is the length of watchlist,
\* and watchlist_size <= total_analyzed <= total_news_fetched.
C30_CountsFormFunnel ==
    pc = "returned" =>
        LET r == result[1]
        IN /\ r.metadata.watchlist_size = Len(r.watchlist)
           /\ r.metadata.watchlist_size <= r.metadata.total_analyzed
           /\ r.metadata.total_analyzed <= r.metadata.total_news_fetched
           /\ r.metadata.total_news_fetched = Len(news_items)

\* A returned dict with fewer entries than analyses and fewer analyses than
\* fetched items.
C30_Witness ==
    /\ FullPath
    /\ result[1].watchlist # <<>>
    /\ result[1].metadata.watchlist_size < result[1].metadata.total_analyzed
    /\ result[1].metadata.total_analyzed < result[1].metadata.total_news_fetched

====
